---------------------------- MODULE Spec2Model ----------------------------
(***************************************************************************)
(* A model of the fixed-price token store program (program/src).  The      *)
(* state is what the ledger keeps between instructions: the data of the    *)
(* store accounts and the SPL token accounts.  Every action is one         *)
(* instruction handed to Processor::process; the host commits the effects  *)
(* of an instruction that returns Ok and discards those of one that        *)
(* returns an error.                                                        *)
(*                                                                         *)
(* Widths are scaled down: a byte holds ByteBits bits (8 in the program)   *)
(* and a u64 is U64Bytes such bytes (8 in the program), so that u64        *)
(* arithmetic wraps at U64Modulus.  A Pubkey (32 bytes) is one cell.       *)
(***************************************************************************)
EXTENDS Integers, Sequences, FiniteSets, TLC

\* ------------------------------------------------------------------ bounds

ByteBits == 3

U64Bytes == 2

InitialTokensAmount == 2

ByteBase == 2 ^ ByteBits

Bytes == 0 .. (ByteBase - 1)

U64Modulus == ByteBase ^ U64Bytes

U64 == 0 .. (U64Modulus - 1)

\* -------------------------------------------------------------------- keys

program_id == "store_program"

spl_token_id == "spl_token"

system_program_id == "11111111"

\* Pubkey::default(): the all-zero key a zeroed record holds.
ZeroKey == system_program_id

store_owner == "O"

user == "U"

\* Pubkey::find_program_address(&[b"store"], program_id): a pure function of
\* the label and the program id, with no private key.
pda == "PDA"

store_payment_tokens_account == "Q"

store_store_tokens_account == "B"

pay_to_store_payment_tokens_account == "PQ"

pay_to_store_store_tokens_account == "PB"

user_payment_tokens_account == "UQ"

user_store_tokens_account == "UB"

TokenAccounts == {"Q", "B", "PQ", "PB", "UQ", "UB"}

Wallets == {store_owner, user}

\* The store accounts instructions may name: S1 is allocated as the test
\* allocates it (owned by the program, rent exempt, zeroed); SF is owned by
\* another program; SN is below the rent-exempt minimum; SC holds a record
\* whose flag byte is neither 0 nor 1; S2 is a second account allocated as
\* S1 is.
StoreAccounts == {"S1", "SF", "SN", "SC", "S2"}

\* AccountInfo.owner: the program that owns the account.
AccountOwner(key) ==
    IF key \in TokenAccounts THEN spl_token_id
    ELSE IF key \in {"S1", "SN", "SC", "S2"} THEN program_id
    ELSE system_program_id

\* rent.is_exempt(store_account.lamports(), store_account.data_len())
is_exempt(key) == key # "SN"

\* ------------------------------------------------------------- u64, bytes

\* u64::to_le_bytes
to_le_bytes(v) == [i \in 1 .. U64Bytes |-> (v \div (ByteBase ^ (i - 1))) % ByteBase]

RECURSIVE from_le_bytes(_)
\* u64::from_le_bytes
from_le_bytes(bytes) ==
    IF bytes = << >> THEN 0
    ELSE Head(bytes) + ByteBase * from_le_bytes(Tail(bytes))

\* amount * price in u64 arithmetic without overflow checks.
wrapping_mul(a, b) == (a * b) % U64Modulus


\* ------------------------------------------------------------ Store record

StoreLEN == 1 + U64Bytes + 1 + 1 + 1

Ok(v) == [ok |-> TRUE, value |-> v]

Err(e) == [ok |-> FALSE, err |-> e]

\* A faulty Store::unpack_from_slice: every flag byte but 0 reads as true.
unpack_from_slice_lenient(src) ==
    IF Len(src) # StoreLEN THEN Err("InvalidAccountData")
    ELSE Ok([is_initialized |-> (src[1] # 0),
             price |-> from_le_bytes(SubSeq(src, 2, 1 + U64Bytes)),
             owner_pubkey |-> src[2 + U64Bytes],
             native_tokens_to_auto_sell_pubkey |-> src[3 + U64Bytes],
             store_tokens_to_auto_buy_pubkey |-> src[4 + U64Bytes]])

\* Store::unpack_from_slice, behind Pack::unpack_unchecked's length check.
unpack_from_slice(src) ==
    IF Len(src) # StoreLEN THEN Err("InvalidAccountData")
    ELSE LET is_initialized == SubSeq(src, 1, 1)
             price == SubSeq(src, 2, 1 + U64Bytes)
             initializer_pubkey == src[2 + U64Bytes]
             native_tokens_pubkey == src[3 + U64Bytes]
             store_tokens_pubkey == src[4 + U64Bytes]
         IN  IF is_initialized \notin {<<0>>, <<1>>} THEN Err("InvalidAccountData")
             ELSE Ok([is_initialized |-> (is_initialized = <<1>>),
                      price |-> from_le_bytes(price),
                      owner_pubkey |-> initializer_pubkey,
                      native_tokens_to_auto_sell_pubkey |-> native_tokens_pubkey,
                      store_tokens_to_auto_buy_pubkey |-> store_tokens_pubkey])

\* A faulty Store::pack_into_slice: the two token account keys change
\* places.
pack_into_slice_swapped(store) ==
    << IF store.is_initialized THEN 1 ELSE 0 >>
    \o to_le_bytes(store.price)
    \o << store.owner_pubkey,
          store.store_tokens_to_auto_buy_pubkey,
          store.native_tokens_to_auto_sell_pubkey >>

\* Store::pack_into_slice
pack_into_slice(store) ==
    << IF store.is_initialized THEN 1 ELSE 0 >>
    \o to_le_bytes(store.price)
    \o << store.owner_pubkey,
          store.native_tokens_to_auto_sell_pubkey,
          store.store_tokens_to_auto_buy_pubkey >>

\* The data of a freshly allocated store account: all zero.
ZeroedData == <<0>> \o [i \in 1 .. U64Bytes |-> 0] \o <<ZeroKey, ZeroKey, ZeroKey>>

\* A record whose flag byte is 2.
CorruptData == <<2>> \o [i \in 1 .. U64Bytes |-> 0] \o <<ZeroKey, ZeroKey, ZeroKey>>

\* ------------------------------------------------------- instruction codec

\* A faulty StoreInstruction::unpack_u64: bytes missing from the input are
\* read as zero instead of being refused.
unpack_u64_padded(offset, input) ==
    Ok(from_le_bytes([i \in 1 .. U64Bytes |->
           IF offset + i <= Len(input) THEN input[offset + i] ELSE 0]))

\* StoreInstruction::unpack_u64
unpack_u64(offset, input) ==
    IF Len(input) < offset + U64Bytes THEN Err("InvalidInstructionData")
    ELSE Ok(from_le_bytes(SubSeq(input, offset + 1, offset + U64Bytes)))

\* StoreInstruction::unpack
unpack(input) ==
    IF input = << >> THEN Err("InvalidInstructionData")
    ELSE LET tag == Head(input)
             rest == Tail(input)
             first == unpack_u64(0, rest)
             second == unpack_u64(U64Bytes, rest)
         IN  CASE tag = 0 ->
                    IF first.ok
                    THEN Ok([type |-> "InitializeAccount", price |-> first.value])
                    ELSE first
               [] tag = 1 ->
                    IF first.ok
                    THEN Ok([type |-> "UpdatePrice", price |-> first.value])
                    ELSE first
               [] tag = 2 ->
                    IF ~first.ok THEN first
                    ELSE IF ~second.ok THEN second
                    ELSE Ok([type |-> "Buy", amount |-> first.value,
                             price |-> second.value])
               [] tag = 3 ->
                    IF ~first.ok THEN first
                    ELSE IF ~second.ok THEN second
                    ELSE Ok([type |-> "Sell", amount |-> first.value,
                             price |-> second.value])
               [] OTHER -> Err("InvalidInstructionData")

\* A faulty StoreInstruction::pack: Buy and Sell carry the price before the
\* amount.
pack_price_first(instruction) ==
    CASE instruction.type = "InitializeAccount" ->
            <<0>> \o to_le_bytes(instruction.price)
      [] instruction.type = "UpdatePrice" ->
            <<1>> \o to_le_bytes(instruction.price)
      [] instruction.type = "Buy" ->
            <<2>> \o to_le_bytes(instruction.price) \o to_le_bytes(instruction.amount)
      [] instruction.type = "Sell" ->
            <<3>> \o to_le_bytes(instruction.price) \o to_le_bytes(instruction.amount)

\* StoreInstruction::pack
pack(instruction) ==
    CASE instruction.type = "InitializeAccount" ->
            <<0>> \o to_le_bytes(instruction.price)
      [] instruction.type = "UpdatePrice" ->
            <<1>> \o to_le_bytes(instruction.price)
      [] instruction.type = "Buy" ->
            <<2>> \o to_le_bytes(instruction.amount) \o to_le_bytes(instruction.price)
      [] instruction.type = "Sell" ->
            <<3>> \o to_le_bytes(instruction.amount) \o to_le_bytes(instruction.price)

\* ------------------------------------------------------------ token ledger
\* The SPL token program, the collaborator the handlers invoke.  A token
\* account holds its mint, its owner (the authority over it) and its amount.

\* spl_token::instruction::set_authority(.., AccountOwner, ..) as processed by
\* the token program: the account must be a token account and the signing
\* authority its current owner.
set_authority(tokens, account, new_authority, authority) ==
    IF account \notin DOMAIN tokens THEN Err("InvalidAccountData")
    ELSE IF tokens[account].owner # authority THEN Err("TokenError::OwnerMismatch")
    ELSE Ok([tokens EXCEPT ![account].owner = new_authority])

\* A faulty transfer: the destination is credited and the source is not
\* debited.
transfer_without_debit(tokens, source, destination, authority, amount) ==
    IF source \notin DOMAIN tokens \/ destination \notin DOMAIN tokens
    THEN Err("InvalidAccountData")
    ELSE IF tokens[source].amount < amount THEN Err("TokenError::InsufficientFunds")
    ELSE IF tokens[source].mint # tokens[destination].mint THEN Err("TokenError::MintMismatch")
    ELSE IF tokens[source].owner # authority THEN Err("TokenError::OwnerMismatch")
    ELSE IF source = destination THEN Ok(tokens)
    ELSE IF tokens[destination].amount + amount >= U64Modulus THEN Err("TokenError::Overflow")
    ELSE Ok([tokens EXCEPT ![destination].amount = @ + amount])

\* spl_token::instruction::transfer as processed by the token program.
transfer(tokens, source, destination, authority, amount) ==
    IF source \notin DOMAIN tokens \/ destination \notin DOMAIN tokens
    THEN Err("InvalidAccountData")
    ELSE IF tokens[source].amount < amount THEN Err("TokenError::InsufficientFunds")
    ELSE IF tokens[source].mint # tokens[destination].mint THEN Err("TokenError::MintMismatch")
    ELSE IF tokens[source].owner # authority THEN Err("TokenError::OwnerMismatch")
    ELSE IF source = destination THEN Ok(tokens)
    ELSE IF tokens[destination].amount + amount >= U64Modulus THEN Err("TokenError::Overflow")
    ELSE Ok([tokens EXCEPT ![source].amount = @ - amount,
                           ![destination].amount = @ + amount])

\* invoke / invoke_signed: hand an instruction to the token program.  The
\* authority of every instruction the handlers build has signed: the first
\* account (the handlers checked is_signer), or the program-derived address,
\* for which invoke_signed supplies the seeds.
invoke(tokens, ix) ==
    IF ix.op = "set_authority"
    THEN set_authority(tokens, ix.account, ix.new_authority, ix.authority)
    ELSE transfer(tokens, ix.source, ix.destination, ix.authority, ix.amount)

\* ---------------------------------------------------------------- handlers
\* A handler's outcome: the ProgramResult ("Ok" or the error's name), the
\* token ledger and the account data as the handler left them when it
\* returned, and the cross-program invocations it made, in order.

Exit(result, tokens, data, cpi) ==
    [err |-> result, tokens |-> tokens, data |-> data, cpi |-> cpi]

\* StoreError::AccountPriceMismatch as a ProgramError: Custom(e as u32).
AccountPriceMismatch == "Custom(0)"

\* store_account.data.borrow()
AccountData(data, key) == IF key \in DOMAIN data THEN data[key] ELSE << >>

\* A faulty AccountInfo.is_signer: the signature of any account of the
\* transaction passes for the caller's.
is_signer_of_any(account, signers) == signers # {}

\* A faulty AccountInfo.is_signer: the signature is never looked at.
is_signer_unchecked(account, signers) == TRUE

\* AccountInfo.is_signer
is_signer(account, signers) == account \in signers

\* A faulty IsInitialized: every record reads as initialised.
is_initialized_always(store_info) == TRUE

\* A faulty IsInitialized: every record reads as not initialised.
is_initialized_never(store_info) == FALSE

\* IsInitialized for Store
is_initialized(store_info) == store_info.is_initialized

SetAuthorityIx(account, new_authority, authority) ==
    [op |-> "set_authority", account |-> account,
     new_authority |-> new_authority, authority |-> authority]

TransferIx(source, destination, authority, amount) ==
    [op |-> "transfer", source |-> source, destination |-> destination,
     authority |-> authority, amount |-> amount]

\* A faulty record of process_init_store: the two token account keys are
\* stored in each other's field.
NewStoreSwapped(store_info, price, owner, native_tokens_account, store_tokens_account) ==
    [store_info EXCEPT !.is_initialized = TRUE,
                       !.price = price,
                       !.owner_pubkey = owner,
                       !.native_tokens_to_auto_sell_pubkey = store_tokens_account,
                       !.store_tokens_to_auto_buy_pubkey = native_tokens_account]

\* The record process_init_store writes.
NewStore(store_info, price, owner, native_tokens_account, store_tokens_account) ==
    [store_info EXCEPT !.is_initialized = TRUE,
                       !.price = price,
                       !.owner_pubkey = owner,
                       !.native_tokens_to_auto_sell_pubkey = native_tokens_account,
                       !.store_tokens_to_auto_buy_pubkey = store_tokens_account]

\* process_init_store's first reassignment: the store token account goes to
\* the program-derived address, on the owner's authority.
store_tokens_owner_change_ix(accounts) ==
    SetAuthorityIx(accounts[4], pda, accounts[1])

\* A faulty second reassignment of process_init_store: the store token
\* account is named again.
native_tokens_owner_change_ix_repeated(accounts) ==
    SetAuthorityIx(accounts[4], pda, accounts[1])

\* process_init_store's second reassignment: the payment (native) token
\* account goes to the program-derived address, on the owner's authority.
native_tokens_owner_change_ix(accounts) ==
    SetAuthorityIx(accounts[3], pda, accounts[1])

\* Processor::process_init_store.  accounts: owner, store account, payment
\* (native) token account, store token account, token program, rent sysvar.
process_init_store(tokens, data, accounts, signers, price) ==
    IF Len(accounts) < 1 THEN Exit("NotEnoughAccountKeys", tokens, data, << >>)
    ELSE IF ~is_signer(accounts[1], signers)
    THEN Exit("MissingRequiredSignature", tokens, data, << >>)
    ELSE IF Len(accounts) < 5 THEN Exit("NotEnoughAccountKeys", tokens, data, << >>)
    ELSE
    LET owner == accounts[1]
        store_account == accounts[2]
        native_tokens_account == accounts[3]
        store_tokens_account == accounts[4]
        ix1 == store_tokens_owner_change_ix(accounts)
        r1 == invoke(tokens, ix1)
        ix2 == native_tokens_owner_change_ix(accounts)
    IN  IF AccountOwner(store_tokens_account) # spl_token_id
        THEN Exit("IncorrectProgramId", tokens, data, << >>)
        ELSE IF AccountOwner(native_tokens_account) # spl_token_id
        THEN Exit("IncorrectProgramId", tokens, data, << >>)
        ELSE IF ~r1.ok THEN Exit(r1.err, tokens, data, <<ix1>>)
        ELSE
        LET r2 == invoke(r1.value, ix2)
        IN  IF ~r2.ok THEN Exit(r2.err, r1.value, data, <<ix1, ix2>>)
            ELSE IF Len(accounts) < 6
            THEN Exit("NotEnoughAccountKeys", r2.value, data, <<ix1, ix2>>)
            ELSE IF ~is_exempt(store_account)
            THEN Exit("AccountNotRentExempt", r2.value, data, <<ix1, ix2>>)
            ELSE IF AccountOwner(store_account) # program_id
            THEN Exit("IncorrectProgramId", r2.value, data, <<ix1, ix2>>)
            ELSE
            LET store_info == unpack_from_slice(AccountData(data, store_account))
            IN  IF ~store_info.ok
                THEN Exit(store_info.err, r2.value, data, <<ix1, ix2>>)
                ELSE IF is_initialized(store_info.value)
                THEN Exit("AccountAlreadyInitialized", r2.value, data, <<ix1, ix2>>)
                ELSE Exit("Ok", r2.value,
                          [data EXCEPT ![store_account] =
                              pack_into_slice(NewStore(store_info.value, price, owner,
                                  native_tokens_account, store_tokens_account))],
                          <<ix1, ix2>>)

\* A faulty owner comparison: every caller passes.
owner_matches_any(store_info, owner) == TRUE

\* The owner comparison of process_update_price.
owner_matches(store_info, owner) == store_info.owner_pubkey = owner

\* A faulty record of process_update_price: the flag is reset to its
\* default along with the new price.
WithPriceCleared(store_info, price) ==
    [store_info EXCEPT !.price = price, !.is_initialized = FALSE]

\* A faulty record of process_update_price: only the low byte of the price
\* is stored.
WithPriceLowByte(store_info, price) == [store_info EXCEPT !.price = price % ByteBase]

\* The record process_update_price writes.
WithPrice(store_info, price) == [store_info EXCEPT !.price = price]

\* Processor::process_update_price.  accounts: owner, store account.
process_update_price(tokens, data, accounts, signers, price) ==
    IF Len(accounts) < 1 THEN Exit("NotEnoughAccountKeys", tokens, data, << >>)
    ELSE IF ~is_signer(accounts[1], signers)
    THEN Exit("MissingRequiredSignature", tokens, data, << >>)
    ELSE IF Len(accounts) < 2 THEN Exit("NotEnoughAccountKeys", tokens, data, << >>)
    ELSE
    LET owner == accounts[1]
        store_account == accounts[2]
        store_info == unpack_from_slice(AccountData(data, store_account))
    IN  IF AccountOwner(store_account) # program_id
        THEN Exit("IncorrectProgramId", tokens, data, << >>)
        ELSE IF ~store_info.ok THEN Exit(store_info.err, tokens, data, << >>)
        ELSE IF ~is_initialized(store_info.value)
        THEN Exit("UninitializedAccount", tokens, data, << >>)
        ELSE IF ~owner_matches(store_info.value, owner)
        THEN Exit("InvalidAccountData", tokens, data, << >>)
        ELSE Exit("Ok", tokens,
                  [data EXCEPT ![store_account] =
                      pack_into_slice(WithPrice(store_info.value, price))],
                  << >>)

\* A faulty amount * price: the sum in place of the product.
mul_as_add(checks, amount, price) == Ok((amount + price) % U64Modulus)

\* amount * price as the build computes it: with overflow checks the
\* multiplication panics when the product leaves the u64 range, without them
\* it wraps.
checked_or_wrapping_mul(checks, amount, price) ==
    IF checks /\ amount * price >= U64Modulus
    THEN Err("ProgramFailedToComplete")
    ELSE Ok(wrapping_mul(amount, price))

\* A faulty authority comparison: every token account passes.
authority_matches_any(test_info, store_info) == TRUE

\* The authority comparison of process_buy and process_sell: the owner the
\* token program reports for the store-side account against the record's.
authority_matches(test_info, store_info) == test_info.owner = store_info.owner_pubkey

\* A faulty price comparison: a price below the record's passes.
price_matches_at_most(price, store_info) == price <= store_info.price

\* A faulty price comparison: every price passes.
price_matches_any(price, store_info) == TRUE

\* The price comparison of process_buy and process_sell.
price_matches(price, store_info) == price = store_info.price

\* A faulty first transfer of process_buy: the user's payment account is
\* named as source and as destination.
buy_payment_transfer_to_self(accounts, amount_times_price) ==
    TransferIx(accounts[5], accounts[5], accounts[1], amount_times_price)

\* process_buy's first transfer: payment tokens, user to store, signed by
\* the buyer.
buy_payment_transfer(accounts, amount_times_price) ==
    TransferIx(accounts[5], accounts[3], accounts[1], amount_times_price)

\* A faulty second transfer of process_buy: signed by the buyer, as the
\* first is.
buy_store_transfer_by_buyer(accounts, amount) ==
    TransferIx(accounts[4], accounts[6], accounts[1], amount)

\* process_buy's second transfer: store tokens, store to user, signed by
\* the program-derived address.
buy_store_transfer(accounts, amount) ==
    TransferIx(accounts[4], accounts[6], pda, amount)

\* process_sell's first transfer: store tokens, user to store, signed by
\* the seller.
sell_store_transfer(accounts, amount) ==
    TransferIx(accounts[6], accounts[4], accounts[1], amount)

\* A faulty second transfer of process_sell: the store's payment account is
\* named as source and as destination.
sell_payment_transfer_to_self(accounts, amount_times_price) ==
    TransferIx(accounts[3], accounts[3], pda, amount_times_price)

\* process_sell's second transfer: payment tokens, store to user, signed by
\* the program-derived address.
sell_payment_transfer(accounts, amount_times_price) ==
    TransferIx(accounts[3], accounts[5], pda, amount_times_price)

\* Processor::process_buy.  accounts: buyer, store account, store payment
\* tokens, store store tokens, user payment tokens, user store tokens, PDA,
\* token program.
process_buy(tokens, data, overflow_checks, accounts, signers, amount, price) ==
    IF Len(accounts) < 1 THEN Exit("NotEnoughAccountKeys", tokens, data, << >>)
    ELSE IF ~is_signer(accounts[1], signers)
    THEN Exit("MissingRequiredSignature", tokens, data, << >>)
    ELSE IF Len(accounts) < 2 THEN Exit("NotEnoughAccountKeys", tokens, data, << >>)
    ELSE
    LET store_account == accounts[2]
        store_info == unpack_from_slice(AccountData(data, store_account))
    IN  IF AccountOwner(store_account) # program_id
        THEN Exit("IncorrectProgramId", tokens, data, << >>)
        ELSE IF ~store_info.ok THEN Exit(store_info.err, tokens, data, << >>)
        ELSE IF ~is_initialized(store_info.value)
        THEN Exit("UninitializedAccount", tokens, data, << >>)
        ELSE IF ~price_matches(price, store_info.value)
        THEN Exit(AccountPriceMismatch, tokens, data, << >>)
        ELSE IF Len(accounts) < 4
        THEN Exit("NotEnoughAccountKeys", tokens, data, << >>)
        ELSE
        LET store_account_payment_tokens == accounts[3]
            store_account_store_tokens == accounts[4]
        IN  IF AccountOwner(store_account_payment_tokens) # spl_token_id
            THEN Exit("IncorrectProgramId", tokens, data, << >>)
            ELSE IF ~authority_matches(tokens[store_account_payment_tokens],
                                       store_info.value)
            THEN Exit("InvalidAccountData", tokens, data, << >>)
            ELSE IF Len(accounts) < 8
            THEN Exit("NotEnoughAccountKeys", tokens, data, << >>)
            ELSE
            LET product == checked_or_wrapping_mul(overflow_checks, amount, price)
            IN  IF ~product.ok THEN Exit(product.err, tokens, data, << >>)
                ELSE
                LET ix1 == buy_payment_transfer(accounts, product.value)
                    r1 == invoke(tokens, ix1)
                    ix2 == buy_store_transfer(accounts, amount)
                IN  IF ~r1.ok THEN Exit(r1.err, tokens, data, <<ix1>>)
                    ELSE
                    LET r2 == invoke(r1.value, ix2)
                    IN  IF ~r2.ok THEN Exit(r2.err, r1.value, data, <<ix1, ix2>>)
                        ELSE Exit("Ok", r2.value, data, <<ix1, ix2>>)

\* Processor::process_sell.  accounts: seller, store account, store payment
\* tokens, store store tokens, user payment tokens, user store tokens, PDA,
\* token program.
process_sell(tokens, data, overflow_checks, accounts, signers, amount, price) ==
    IF Len(accounts) < 1 THEN Exit("NotEnoughAccountKeys", tokens, data, << >>)
    ELSE IF ~is_signer(accounts[1], signers)
    THEN Exit("MissingRequiredSignature", tokens, data, << >>)
    ELSE IF Len(accounts) < 2 THEN Exit("NotEnoughAccountKeys", tokens, data, << >>)
    ELSE
    LET store_account == accounts[2]
        store_info == unpack_from_slice(AccountData(data, store_account))
    IN  IF AccountOwner(store_account) # program_id
        THEN Exit("IncorrectProgramId", tokens, data, << >>)
        ELSE IF ~store_info.ok THEN Exit(store_info.err, tokens, data, << >>)
        ELSE IF ~is_initialized(store_info.value)
        THEN Exit("UninitializedAccount", tokens, data, << >>)
        ELSE IF ~price_matches(price, store_info.value)
        THEN Exit(AccountPriceMismatch, tokens, data, << >>)
        ELSE IF Len(accounts) < 4
        THEN Exit("NotEnoughAccountKeys", tokens, data, << >>)
        ELSE
        LET store_account_payment_tokens == accounts[3]
            store_account_store_tokens == accounts[4]
        IN  IF AccountOwner(store_account_store_tokens) # spl_token_id
            THEN Exit("IncorrectProgramId", tokens, data, << >>)
            ELSE IF ~authority_matches(tokens[store_account_store_tokens],
                                       store_info.value)
            THEN Exit("InvalidAccountData", tokens, data, << >>)
            ELSE IF Len(accounts) < 8
            THEN Exit("NotEnoughAccountKeys", tokens, data, << >>)
            ELSE
            LET ix1 == sell_store_transfer(accounts, amount)
                r1 == invoke(tokens, ix1)
            IN  IF ~r1.ok THEN Exit(r1.err, tokens, data, <<ix1>>)
                ELSE
                LET product == checked_or_wrapping_mul(overflow_checks, amount, price)
                IN  IF ~product.ok THEN Exit(product.err, r1.value, data, <<ix1>>)
                    ELSE
                    LET ix2 == sell_payment_transfer(accounts, product.value)
                        r2 == invoke(r1.value, ix2)
                    IN  IF ~r2.ok THEN Exit(r2.err, r1.value, data, <<ix1, ix2>>)
                        ELSE Exit("Ok", r2.value, data, <<ix1, ix2>>)

\* A faulty Processor::process: every variant but InitializeAccount is
\* dispatched to process_update_price.
process_misrouted(tokens, data, overflow_checks, accounts, signers, instruction_data) ==
    LET instruction == unpack(instruction_data)
    IN  IF ~instruction.ok THEN Exit(instruction.err, tokens, data, << >>)
        ELSE IF instruction.value.type = "InitializeAccount"
        THEN process_init_store(tokens, data, accounts, signers,
                 instruction.value.price)
        ELSE process_update_price(tokens, data, accounts, signers,
                 instruction.value.price)

\* Processor::process: decode the instruction data, dispatch on the variant.
process(tokens, data, overflow_checks, accounts, signers, instruction_data) ==
    LET instruction == unpack(instruction_data)
    IN  IF ~instruction.ok THEN Exit(instruction.err, tokens, data, << >>)
        ELSE
        CASE instruction.value.type = "InitializeAccount" ->
                process_init_store(tokens, data, accounts, signers,
                    instruction.value.price)
          [] instruction.value.type = "UpdatePrice" ->
                process_update_price(tokens, data, accounts, signers,
                    instruction.value.price)
          [] instruction.value.type = "Buy" ->
                process_buy(tokens, data, overflow_checks, accounts, signers,
                    instruction.value.amount, instruction.value.price)
          [] instruction.value.type = "Sell" ->
                process_sell(tokens, data, overflow_checks, accounts, signers,
                    instruction.value.amount, instruction.value.price)

\* ------------------------------------------------------------------- state

VARIABLES
    tokens,             \* the token ledger: token account -> mint, owner, amount
    data,               \* store account -> the bytes of its data
    overflow_checks,    \* whether the build panics on arithmetic overflow
    last,               \* the variant of the latest instruction that returned Ok
    sent,               \* the instruction a client encoded, if wire is its encoding
    wire,               \* instruction data on its way to StoreInstruction::unpack
    decoded             \* what StoreInstruction::unpack made of wire, if it ran

vars == <<tokens, data, overflow_checks, last, sent, wire, decoded>>

\* The token accounts of the test: four of the store owner's, two of the
\* user's, INITIAL_TOKENS_AMOUNT in each.
InitialTokens ==
    [a \in TokenAccounts |->
        [mint |-> IF a \in {"Q", "PQ", "UQ"} THEN "payment" ELSE "store",
         owner |-> IF a \in {"UQ", "UB"} THEN user ELSE store_owner,
         amount |-> InitialTokensAmount]]

InitialData ==
    [s \in StoreAccounts |-> IF s = "SC" THEN CorruptData ELSE ZeroedData]

Init ==
    /\ tokens = InitialTokens
    /\ data = InitialData
    /\ overflow_checks \in BOOLEAN
    /\ last = "None"
    /\ sent = << >>
    /\ wire = << >>
    /\ decoded = << >>

\* ------------------------------------------------------------------ inputs

\* Who submits an instruction: the first account and whether it signed.
Signed(key) == [key |-> key, signers |-> {key}]

Unsigned(key) == [key |-> key, signers |-> {}]

Submitters == {Signed(store_owner), Signed(user), Unsigned(user), Unsigned(store_owner)}

Prices == {1, 2, U64Modulus \div 2}

Amounts == {1, 2}

\* The prices an UpdatePrice is tried with: every value of the low byte, the
\* values that carry into the second byte, and the top of the u64 range.
UpdatedPrices == (0 .. (2 * ByteBase - 1)) \cup {U64Modulus \div 2, U64Modulus - 1}

rent_sysvar == "SysvarRent"

InitializeAccountAccounts(who, store_account, payment, store) ==
    <<who.key, store_account, payment, store, spl_token_id, rent_sysvar>>

UpdatePriceAccounts(who, store_account) == <<who.key, store_account>>

TradeAccounts(who, store_account, places) ==
    <<who.key, store_account, places[1], places[2], places[3], places[4],
      pda, spl_token_id>>

\* The accounts an Initialize may name as payment and store token accounts;
\* the user's wallet stands for an account the token program does not own.
InitPlaces == {"Q", "UQ", user} \X {"B", "UB", "Q"}

\* The places of the test's Buy and of its Sell.
TestBuyPlaces == <<"PQ", "B", "UQ", "UB">>

TestSellPlaces == <<"Q", "PB", "UQ", "UB">>

\* The accounts a Buy or Sell may name in its four token account places:
\* store payment tokens, store store tokens, user payment tokens, user store
\* tokens.  Besides the test's: the registered accounts on the store side,
\* the owner's own accounts on the store side, accounts of one mint in the
\* places of the other, the user's two accounts exchanged, and a wallet in
\* the place of a token account.
TradePlaces ==
    { TestBuyPlaces, TestSellPlaces,
      <<"Q", "B", "UQ", "UB">>,
      <<"PQ", "PB", "UQ", "UB">>,
      <<"PQ", "Q", "UQ", "UQ">>,
      <<"B", "PB", "UB", "UB">>,
      <<"PQ", "B", "UB", "UQ">>,
      <<user, "B", "UQ", "UB">>,
      <<"Q", user, "UQ", "UB">> }

\* The instructions the actions submit.  Instructions that fail before the
\* token accounts are looked at are submitted with the test's places only.
InitializeAccountInputs ==
    { [who |-> w, store_account |-> "S1", price |-> p, places |-> pl] :
        w \in {Signed(store_owner), Signed(user)}, p \in Prices, pl \in InitPlaces }
    \cup
    { [who |-> w, store_account |-> s, price |-> 1, places |-> <<"Q", "B">>] :
        w \in {Signed(store_owner), Unsigned(store_owner)},
        s \in StoreAccounts }

UpdatePriceInputs ==
    { [who |-> w, store_account |-> s, price |-> p] :
        w \in Submitters, s \in {"S1", "SF", "SC"}, p \in Prices }

TradeInputs ==
    { [who |-> Signed(user), store_account |-> "S1", amount |-> a, price |-> p,
       places |-> pl] :
        a \in Amounts, p \in Prices, pl \in TradePlaces }
    \cup
    { [who |-> w, store_account |-> s, amount |-> 1, price |-> 1, places |-> pl] :
        w \in {Signed(store_owner), Signed(user), Unsigned(user)},
        s \in {"S1", "SF", "SC"},
        pl \in {TestBuyPlaces, TestSellPlaces} }

\* ----------------------------------------------------------------- actions
\* One action per instruction variant.  The host runs Processor::process,
\* keeps the effects of an instruction that returned Ok and discards those
\* of one that failed.

\* The instruction data and the account list of an input.
InitializeAccountData(in) == pack([type |-> "InitializeAccount", price |-> in.price])

UpdatePriceData(in) == pack([type |-> "UpdatePrice", price |-> in.price])

BuyData(in) == pack([type |-> "Buy", amount |-> in.amount, price |-> in.price])

SellData(in) == pack([type |-> "Sell", amount |-> in.amount, price |-> in.price])

\* Processor::process on the current state.
Run(accounts, signers, instruction_data) ==
    process(tokens, data, overflow_checks, accounts, signers, instruction_data)

\* A faulty host: the effects of a failed instruction are kept.
CommittedAlways(r) == [tokens |-> r.tokens, data |-> r.data]

\* What the host keeps of an instruction's outcome: the ledger and the account
\* data as the handler left them if it returned Ok, as they were before the
\* instruction if it returned an error.
Committed(r) ==
    IF r.err = "Ok"
    THEN [tokens |-> r.tokens, data |-> r.data]
    ELSE [tokens |-> tokens, data |-> data]

InitializeAccount ==
    \E in \in InitializeAccountInputs :
      \E r \in {Run(InitializeAccountAccounts(in.who, in.store_account,
                                              in.places[1], in.places[2]),
                    in.who.signers, InitializeAccountData(in))} :
        /\ tokens' = Committed(r).tokens
        /\ data' = Committed(r).data
        /\ last' = IF r.err = "Ok" THEN "InitializeAccount" ELSE last
        /\ UNCHANGED <<overflow_checks, sent, wire, decoded>>

UpdatePrice ==
    \E in \in UpdatePriceInputs :
      \E r \in {Run(UpdatePriceAccounts(in.who, in.store_account),
                    in.who.signers, UpdatePriceData(in))} :
        /\ tokens' = Committed(r).tokens
        /\ data' = Committed(r).data
        /\ last' = IF r.err = "Ok" THEN "UpdatePrice" ELSE last
        /\ UNCHANGED <<overflow_checks, sent, wire, decoded>>

Buy ==
    \E in \in TradeInputs :
      \E r \in {Run(TradeAccounts(in.who, in.store_account, in.places),
                    in.who.signers, BuyData(in))} :
        /\ tokens' = Committed(r).tokens
        /\ data' = Committed(r).data
        /\ last' = IF r.err = "Ok" THEN "Buy" ELSE last
        /\ UNCHANGED <<overflow_checks, sent, wire, decoded>>

Sell ==
    \E in \in TradeInputs :
      \E r \in {Run(TradeAccounts(in.who, in.store_account, in.places),
                    in.who.signers, SellData(in))} :
        /\ tokens' = Committed(r).tokens
        /\ data' = Committed(r).data
        /\ last' = IF r.err = "Ok" THEN "Sell" ELSE last
        /\ UNCHANGED <<overflow_checks, sent, wire, decoded>>

Next == InitializeAccount \/ UpdatePrice \/ Buy \/ Sell

Spec == Init /\ [][Next]_vars

\* ------------------------------------------------------------ store record
\* The record a store account holds, as the handlers read it.

Stored(s) == unpack_from_slice(data[s])

Initialized(s) == Stored(s).ok /\ Stored(s).value.is_initialized

PriceOf(s) == Stored(s).value.price

\* The three identifiers of a record: owner_pubkey,
\* native_tokens_to_auto_sell_pubkey, store_tokens_to_auto_buy_pubkey.
IdentifiersOf(s) ==
    <<Stored(s).value.owner_pubkey,
      Stored(s).value.native_tokens_to_auto_sell_pubkey,
      Stored(s).value.store_tokens_to_auto_buy_pubkey>>

Keys == Wallets \cup {pda}

\* An UpdatePrice input whose instruction returns Ok and leaves the state
\* the step ends in.
UpdatePriceStep(in) ==
    \E r \in {Run(UpdatePriceAccounts(in.who, in.store_account),
                  in.who.signers, UpdatePriceData(in))} :
        /\ r.err = "Ok"
        /\ r.data = data'
        /\ r.tokens = tokens'

\* ---------------------------------------------------------------------- C1
\* C1: once a store record is initialised, its owner_pubkey,
\* native_tokens_to_auto_sell_pubkey and store_tokens_to_auto_buy_pubkey
\* hold the same values after every step, whatever instruction is submitted.
C1_IdentifiersImmutable ==
    [][data' # data =>
          \A s \in StoreAccounts :
              Initialized(s) => /\ Stored(s)'.ok
                                /\ IdentifiersOf(s)' = IdentifiersOf(s)]_vars

\* An initialised record after a trade, with the identifiers its Initialize
\* wrote, although a second Initialize naming other accounts was possible.
C1_Witness ==
    /\ Initialized("S1")
    /\ last \in {"Buy", "Sell"}
    /\ IdentifiersOf("S1") = <<store_owner, "Q", "B">>

\* ---------------------------------------------------------------------- C2
\* C2: a step changes the price of an initialised record only if it is a
\* successful UpdatePrice whose first account signed and equals the
\* record's owner_pubkey.
C2_PriceChangesOnlyByOwnerUpdate ==
    [][\A s \in {t \in StoreAccounts : data'[t] # data[t]} :
          (Initialized(s) /\ (~Stored(s)'.ok \/ PriceOf(s)' # PriceOf(s))) =>
              /\ last' = "UpdatePrice"
              /\ \E in \in UpdatePriceInputs :
                    in.store_account = s /\ UpdatePriceStep(in)
              /\ \A in \in UpdatePriceInputs :
                    UpdatePriceStep(in) =>
                        /\ in.store_account = s
                        /\ in.who.key \in in.who.signers
                        /\ in.who.key = Stored(s).value.owner_pubkey]_vars

\* An initialised record of the store owner whose price an UpdatePrice has
\* just set to a new value, after a Buy at the earlier price.
C2_Witness ==
    /\ Initialized("S1")
    /\ last = "UpdatePrice"
    /\ IdentifiersOf("S1")[1] = store_owner
    /\ PriceOf("S1") = U64Modulus \div 2
    /\ tokens["UB"].amount > InitialTokensAmount

\* ---------------------------------------------------------------------- C3
\* C3: an UpdatePrice on an initialised record whose signing first account
\* is not the record's owner_pubkey is rejected with the authority mismatch
\* error (the program returns ProgramError::InvalidAccountData for it), and
\* the record and the ledger are as before.
C3_NonOwnerUpdateRejected ==
    \A s \in StoreAccounts :
        (AccountOwner(s) = program_id /\ Initialized(s)) =>
            \A k \in Keys \ {Stored(s).value.owner_pubkey}, p \in UpdatedPrices :
                \A r \in {Run(<<k, s>>, {k}, pack([type |-> "UpdatePrice", price |-> p]))} :
                    /\ r.err = "InvalidAccountData"
                    /\ r.data = data
                    /\ r.tokens = tokens
                    /\ r.cpi = << >>

\* An initialised record of the store owner on which the user's signed
\* UpdatePrice to another price is rejected.
C3_Witness ==
    /\ Initialized("S1")
    /\ Stored("S1").value.owner_pubkey = store_owner
    /\ PriceOf("S1") # 1
    /\ Run(<<user, "S1">>, {user},
           pack([type |-> "UpdatePrice", price |-> 1])).err = "InvalidAccountData"

\* ---------------------------------------------------------------------- C4
\* C4: a successful UpdatePrice(p) leaves the record with price p and every
\* other field as before, for p from 0 to the top of the u64 range; no
\* other account data and no token account changes.
C4_UpdatePriceWritesPrice ==
    [](
    \A w \in Submitters, s \in StoreAccounts, p \in UpdatedPrices :
        \A r \in {Run(UpdatePriceAccounts(w, s), w.signers,
                      pack([type |-> "UpdatePrice", price |-> p]))} :
            r.err = "Ok" =>
                \E new \in {unpack_from_slice(r.data[s])} :
                    /\ Stored(s).ok
                    /\ new.ok
                    /\ new.value.price = p
                    /\ new.value.is_initialized = Stored(s).value.is_initialized
                    /\ new.value.owner_pubkey = Stored(s).value.owner_pubkey
                    /\ new.value.native_tokens_to_auto_sell_pubkey
                          = Stored(s).value.native_tokens_to_auto_sell_pubkey
                    /\ new.value.store_tokens_to_auto_buy_pubkey
                          = Stored(s).value.store_tokens_to_auto_buy_pubkey
                    /\ \A t \in StoreAccounts \ {s} : r.data[t] = data[t]
                    /\ r.tokens = tokens
    )

\* An initialised record on which the owner's UpdatePrice to the largest
\* u64 value returns Ok, the previous UpdatePrice having succeeded too.
C4_Witness ==
    /\ Initialized("S1")
    /\ last = "UpdatePrice"
    /\ PriceOf("S1") # U64Modulus - 1
    /\ Run(<<Stored("S1").value.owner_pubkey, "S1">>,
           {Stored("S1").value.owner_pubkey},
           pack([type |-> "UpdatePrice", price |-> U64Modulus - 1])).err = "Ok"

\* ---------------------------------------------------------------------- C5
\* C5: an Initialize on a record that is already initialised fails with
\* AccountAlreadyInitialized and leaves the record unchanged, whatever
\* price, signer and token accounts it names, the token accounts of the
\* first Initialize included.
C5_SecondInitializeAlreadyInitialized ==
    \A s \in StoreAccounts :
        (AccountOwner(s) = program_id /\ is_exempt(s) /\ Initialized(s)) =>
            \A k \in Wallets, p \in Prices,
               payment \in TokenAccounts, store \in TokenAccounts :
                \A r \in {Run(InitializeAccountAccounts(Signed(k), s, payment, store),
                              {k}, pack([type |-> "InitializeAccount", price |-> p]))} :
                    /\ r.err = "AccountAlreadyInitialized"
                    /\ r.data[s] = data[s]

\* ---------------------------------------------------------------------- C6
\* C6: a Buy or Sell by a signer on an initialised record owned by the
\* program, carrying a price other than the stored one, is rejected with
\* StoreError::AccountPriceMismatch, which is not the code of
\* ProgramError::InvalidAccountData; no transfer is requested and the token
\* ledger is as before.
C6_PriceMismatchRejected ==
    [](
    /\ AccountPriceMismatch # "InvalidAccountData"
    /\ \A s \in StoreAccounts :
        (AccountOwner(s) = program_id /\ Initialized(s)) =>
            \A p \in (Prices \cup {0}) \ {PriceOf(s)}, k \in Wallets, a \in Amounts,
               pl \in TradePlaces, type \in {"Buy", "Sell"} :
                \A r \in {Run(TradeAccounts(Signed(k), s, pl), {k},
                              pack([type |-> type, amount |-> a, price |-> p]))} :
                    /\ r.err = AccountPriceMismatch
                    /\ r.cpi = << >>
                    /\ r.tokens = tokens
                    /\ r.data = data
    )

\* An initialised record whose price an UpdatePrice has replaced: the Buy
\* of the test's accounts at the stored price does not end in the price
\* mismatch, the same Buy at another price does.
C6_Witness ==
    /\ Initialized("S1")
    /\ last = "UpdatePrice"
    /\ PriceOf("S1") = 2
    /\ Run(TradeAccounts(Signed(user), "S1", TestBuyPlaces), {user},
           pack([type |-> "Buy", amount |-> 1, price |-> 2])).err = "Ok"
    /\ Run(TradeAccounts(Signed(user), "S1", TestBuyPlaces), {user},
           pack([type |-> "Buy", amount |-> 1, price |-> 1])).err = AccountPriceMismatch

\* ---------------------------------------------------------------------- C7
\* C7: after a successful Initialize(price) by signer O naming payment
\* token account Q and store token account B, the token program reports the
\* program-derived address as the owner of Q and of B, and the record is
\* initialised with the given price, owner_pubkey O,
\* native_tokens_to_auto_sell_pubkey Q and store_tokens_to_auto_buy_pubkey B.
C7_InitializeEffect ==
    [](
    \A w \in Submitters, s \in StoreAccounts, p \in {0, 1, U64Modulus - 1},
       pl \in InitPlaces :
        \A r \in {Run(InitializeAccountAccounts(w, s, pl[1], pl[2]), w.signers,
                      pack([type |-> "InitializeAccount", price |-> p]))} :
            r.err = "Ok" =>
                /\ r.tokens[pl[1]].owner = pda
                /\ r.tokens[pl[2]].owner = pda
                /\ unpack_from_slice(r.data[s]) =
                      Ok([is_initialized |-> TRUE,
                          price |-> p,
                          owner_pubkey |-> w.key,
                          native_tokens_to_auto_sell_pubkey |-> pl[1],
                          store_tokens_to_auto_buy_pubkey |-> pl[2]])
    )

\* The state a successful Initialize of the store owner naming Q and B has
\* just left.
C7_Witness ==
    /\ last = "InitializeAccount"
    /\ tokens["Q"].owner = pda
    /\ tokens["B"].owner = pda
    /\ Initialized("S1")
    /\ IdentifiersOf("S1") = <<store_owner, "Q", "B">>

\* ------------------------------------------------------------------ trades
\* The four token account places of a Buy or Sell name four accounts.
Distinct(pl) == Cardinality({pl[1], pl[2], pl[3], pl[4]}) = 4

\* The outcome r moved quote token units from account from to account to.
Moved(r, from, to, quantity) ==
    /\ r.tokens[from].amount = tokens[from].amount - quantity
    /\ r.tokens[to].amount = tokens[to].amount + quantity

\* The outcome r left the token program's owner of the four accounts alone.
SameAuthorities(r, pl) ==
    \A i \in 1 .. 4 : r.tokens[pl[i]].owner = tokens[pl[i]].owner

\* The outcome of a Buy or Sell of a signer at the given places.
Trade(type, k, s, pl, a, p) ==
    Run(TradeAccounts(Signed(k), s, pl), {k},
        pack([type |-> type, amount |-> a, price |-> p]))

TestRecord ==
    /\ Initialized("S1")
    /\ IdentifiersOf("S1") = <<store_owner, "Q", "B">>
    /\ tokens["UQ"].owner = user
    /\ tokens["UB"].owner = user

\* Buy(a, p) of the user at the given store-side places succeeds, adds a * p
\* to the payment account and takes a from the store token account it names,
\* and every following Sell(b, p) the balances cover, at its own store-side
\* places, succeeds, takes b * p from the payment account and adds b to the
\* store token account it names.
BuyThenSell(buy_places, sell_places) ==
    \A p \in {PriceOf("S1")}, a \in Amounts :
        (a * p < U64Modulus /\ tokens["UQ"].amount >= a * p
            /\ tokens["B"].amount >= a) =>
            \A r1 \in {Trade("Buy", user, "S1", buy_places, a, p)} :
                /\ r1.err = "Ok"
                /\ r1.tokens[buy_places[1]].amount
                      = tokens[buy_places[1]].amount + a * p
                /\ r1.tokens[buy_places[2]].amount
                      = tokens[buy_places[2]].amount - a
                /\ \A b \in Amounts :
                    (b * p < U64Modulus /\ r1.tokens["UB"].amount >= b
                        /\ r1.tokens["Q"].amount >= b * p) =>
                        \A r2 \in {process(r1.tokens, r1.data, overflow_checks,
                                       TradeAccounts(Signed(user), "S1", sell_places),
                                       {user},
                                       pack([type |-> "Sell", amount |-> b,
                                             price |-> p]))} :
                            /\ r2.err = "Ok"
                            /\ r2.tokens[sell_places[1]].amount
                                  = r1.tokens[sell_places[1]].amount - b * p
                            /\ r2.tokens[sell_places[2]].amount
                                  = r1.tokens[sell_places[2]].amount + b

\* C10 as stated: on a record registering Q and B, at the stored price p, a
\* Buy(a, p) naming Q and B as the store-side accounts succeeds, Q growing by
\* a * p and B falling by a, and a following Sell(b, p) naming Q and B
\* succeeds, Q falling by b * p and B growing by b.
C10_TradesOnRegisteredAccounts ==
    TestRecord => BuyThenSell(<<"Q", "B", "UQ", "UB">>, <<"Q", "B", "UQ", "UB">>)

\* C10 amended: the Buy names the store owner's own payment account PQ with
\* the registered B and the Sell names the registered Q with the store
\* owner's own store token account PB, as the test does; PQ grows by a * p
\* and B falls by a, then Q falls by b * p and PB grows by b.
C10_TradesOfTheTest ==
    TestRecord => BuyThenSell(TestBuyPlaces, TestSellPlaces)

\* The state the test's Sell has left after the test's Buy.
C10_Witness ==
    /\ TestRecord
    /\ last = "Sell"
    /\ tokens["PQ"].amount > InitialTokensAmount
    /\ tokens["B"].amount < InitialTokensAmount
    /\ tokens["Q"].amount < InitialTokensAmount
    /\ tokens["PB"].amount > InitialTokensAmount

\* --------------------------------------------------------------------- C11
\* C11: a successful Buy debits, under the program-derived address, the
\* store_tokens_to_auto_buy_pubkey of the record it is given, a successful
\* Sell the record's native_tokens_to_auto_sell_pubkey; a Buy or Sell that
\* names another account in that place takes no tokens out of it.
C11_PaysFromRegisteredAccount ==
    \A s \in StoreAccounts :
        (AccountOwner(s) = program_id /\ Initialized(s)) =>
            \A k \in Wallets, a \in Amounts, pl \in TradePlaces :
                /\ \A r \in {Trade("Buy", k, s, pl, a, PriceOf(s))} :
                      /\ r.err = "Ok" =>
                            pl[2] = Stored(s).value.store_tokens_to_auto_buy_pubkey
                      /\ (pl[2] \in TokenAccounts
                            /\ pl[2] # Stored(s).value.store_tokens_to_auto_buy_pubkey) =>
                            Committed(r).tokens[pl[2]].amount >= tokens[pl[2]].amount
                /\ \A r \in {Trade("Sell", k, s, pl, a, PriceOf(s))} :
                      /\ r.err = "Ok" =>
                            pl[1] = Stored(s).value.native_tokens_to_auto_sell_pubkey
                      /\ (pl[1] \in TokenAccounts
                            /\ pl[1] # Stored(s).value.native_tokens_to_auto_sell_pubkey) =>
                            Committed(r).tokens[pl[1]].amount >= tokens[pl[1]].amount

\* --------------------------------------------------------------------- C12
\* Places in which the signer's own accounts stand on the user side and a
\* token account of another record on the store side.
CrossRecordPlaces ==
    { <<"PQ", "UB", "PQ", "PB">>, <<"UQ", "PB", "PQ", "PB">> }

\* The record of s1 and the token accounts it registers are, after the host
\* has dealt with the outcome r, as they were.
Untouched(s1, r) ==
    /\ Committed(r).data[s1] = data[s1]
    /\ \A t \in {Stored(s1).value.native_tokens_to_auto_sell_pubkey,
                 Stored(s1).value.store_tokens_to_auto_buy_pubkey} :
          Committed(r).tokens[t] = tokens[t]

\* C12: with two initialised records, each registering its own token
\* accounts, no Initialize, UpdatePrice, Buy or Sell against the second
\* changes a field of the first or the balance or authority of a token
\* account the first registers.
C12_RecordsIndependent ==
    \A s1 \in {"S1", "S2"}, s2 \in {"S1", "S2"} :
        (s1 # s2 /\ Initialized(s1) /\ Initialized(s2)) =>
            /\ \A k \in Wallets, pl \in InitPlaces :
                  Untouched(s1, Run(InitializeAccountAccounts(Signed(k), s2, pl[1], pl[2]),
                                    {k}, pack([type |-> "InitializeAccount", price |-> 1])))
            /\ \A k \in Wallets, p \in Prices :
                  Untouched(s1, Run(UpdatePriceAccounts(Signed(k), s2), {k},
                                    pack([type |-> "UpdatePrice", price |-> p])))
            /\ \A k \in Wallets, a \in Amounts, type \in {"Buy", "Sell"},
                  pl \in TradePlaces \cup CrossRecordPlaces :
                  Untouched(s1, Trade(type, k, s2, pl, a, PriceOf(s2)))

RejectionCodes ==
    [MalformedInstruction |->
        Run(<<user, "S1">>, {user}, << >>).err,
     MissingSignature |->
        Run(<<store_owner, "S1">>, {}, pack([type |-> "UpdatePrice", price |-> 1])).err,
     WrongProgramOwnership |->
        Run(<<store_owner, "SF">>, {store_owner},
            pack([type |-> "UpdatePrice", price |-> 1])).err,
     AlreadyInitialized |->
        Run(InitializeAccountAccounts(Signed(store_owner), "S1", "PQ", "PB"),
            {store_owner}, pack([type |-> "InitializeAccount", price |-> 1])).err,
     NotInitialized |->
        Run(<<store_owner, "SN">>, {store_owner},
            pack([type |-> "UpdatePrice", price |-> 1])).err,
     AuthorityMismatch |->
        Run(<<user, "S1">>, {user}, pack([type |-> "UpdatePrice", price |-> 1])).err,
     PriceMismatch |->
        Trade("Buy", user, "S1", TestBuyPlaces, 1,
              CHOOSE p \in Prices : p # PriceOf("S1")).err,
     NotRentExempt |->
        Run(InitializeAccountAccounts(Signed(store_owner), "SN", "PQ", "PB"),
            {store_owner}, pack([type |-> "InitializeAccount", price |-> 1])).err,
     LayoutError |->
        Run(<<store_owner, "SC">>, {store_owner},
            pack([type |-> "UpdatePrice", price |-> 1])).err]

\* C14: every rejection kind surfaces with a code no other kind uses; the
\* codes of AuthorityMismatch and LayoutError differ.
C14_DistinctRejectionCodes ==
    TestRecord =>
        /\ \A k \in DOMAIN RejectionCodes : RejectionCodes[k] # "Ok"
        /\ \A k1 \in DOMAIN RejectionCodes, k2 \in DOMAIN RejectionCodes :
              k1 # k2 => RejectionCodes[k1] # RejectionCodes[k2]
        /\ RejectionCodes.AuthorityMismatch # RejectionCodes.LayoutError

\* --------------------------------------------------------------------- C15
\* C15: a Buy succeeds only if the token program reports the record's
\* owner_pubkey as owner of the store-side payment account it names, a Sell
\* only if it does so for the store-side store token account; otherwise the
\* instruction is rejected with no transfer requested.
C15_TradeNeedsOwnerHeldAccount ==
    \A s \in StoreAccounts :
        (AccountOwner(s) = program_id /\ Initialized(s)) =>
            \A k \in Wallets, a \in Amounts, pl \in TradePlaces :
                /\ \A r \in {Trade("Buy", k, s, pl, a, PriceOf(s))} :
                      \/ /\ pl[1] \in TokenAccounts
                         /\ tokens[pl[1]].owner = Stored(s).value.owner_pubkey
                      \/ /\ r.err # "Ok"
                         /\ r.cpi = << >>
                         /\ r.tokens = tokens
                /\ \A r \in {Trade("Sell", k, s, pl, a, PriceOf(s))} :
                      \/ /\ pl[2] \in TokenAccounts
                         /\ tokens[pl[2]].owner = Stored(s).value.owner_pubkey
                      \/ /\ r.err # "Ok"
                         /\ r.cpi = << >>
                         /\ r.tokens = tokens

\* The test's record: the Buy naming the registered payment account, which
\* the program-derived address holds, is rejected, the Buy naming the
\* owner's own payment account succeeds.
C15_Witness ==
    /\ TestRecord
    /\ Trade("Buy", user, "S1", <<"Q", "B", "UQ", "UB">>, 1, PriceOf("S1")).err
          = "InvalidAccountData"
    /\ Trade("Buy", user, "S1", TestBuyPlaces, 1, PriceOf("S1")).err = "Ok"

\* --------------------------------------------------------------------- C16
\* C16: for an amount and a price whose product leaves the u64 range, Buy
\* and Sell treat the payment quantity alike: both are rejected with no
\* transfer requested, or both request a transfer of the product modulo the
\* u64 range.  Stated for the test's record and places, the seller holding
\* the store tokens the Sell takes first.
C16_OneOverflowPolicy ==
    TestRecord =>
        \A a \in Amounts, p \in {PriceOf("S1")} :
            (a * p >= U64Modulus /\ tokens["UB"].amount >= a) =>
                \A rb \in {Trade("Buy", user, "S1", TestBuyPlaces, a, p)},
                   rs \in {Trade("Sell", user, "S1", TestSellPlaces, a, p)} :
                    \/ /\ rb.err # "Ok"
                       /\ rs.err # "Ok"
                       /\ rb.cpi = << >>
                       /\ rs.cpi = << >>
                    \/ /\ \E i \in DOMAIN rb.cpi :
                             rb.cpi[i] = TransferIx("UQ", "PQ", user, (a * p) % U64Modulus)
                       /\ \E i \in DOMAIN rs.cpi :
                             rs.cpi[i] = TransferIx("Q", "UQ", pda, (a * p) % U64Modulus)

\* --------------------------------------------------------------------- C17
\* C17: a Buy or Sell, whether it returns Ok or an error, leaves the data of
\* every store account as it was, byte for byte; a step that changes the
\* data of a store account is a successful InitializeAccount or UpdatePrice.
C17_TradesLeaveRecord ==
    /\ [](\A k \in Wallets, s \in StoreAccounts, a \in Amounts, p \in Prices,
             pl \in {TestBuyPlaces, TestSellPlaces, <<"PQ", "PB", "UQ", "UB">>,
                     <<"PQ", "Q", "UQ", "UQ">>, <<"B", "PB", "UB", "UB">>},
             type \in {"Buy", "Sell"} :
              Trade(type, k, s, pl, a, p).data = data)
    /\ [][data' # data => last' \in {"InitializeAccount", "UpdatePrice"}]_vars

\* The test's record after a Sell at price 2 that paid the user.
C17_Witness ==
    /\ TestRecord
    /\ last = "Sell"
    /\ PriceOf("S1") = 2
    /\ tokens["UQ"].amount = InitialTokensAmount + 2

\* --------------------------------------------------------------------- C18
\* The outcome r requested the transfer first, then the transfer second, the
\* second only if the token program accepted the first; it is Ok only if
\* both were requested and accepted, and if it is not Ok no token account
\* differs once the host has dealt with it.
TransfersInOrder(r, first, second) ==
    /\ r.cpi \in {<< >>, <<first>>, <<first, second>>}
    /\ Len(r.cpi) = 2 => invoke(tokens, first).ok
    /\ r.err = "Ok" =>
          /\ r.cpi = <<first, second>>
          /\ invoke(tokens, first).ok
          /\ invoke(invoke(tokens, first).value, second).ok
    /\ (Len(r.cpi) >= 1 /\ ~invoke(tokens, first).ok) => r.err # "Ok"
    /\ (Len(r.cpi) = 2 /\ ~invoke(invoke(tokens, first).value, second).ok) =>
          r.err # "Ok"
    /\ r.err # "Ok" => Committed(r).tokens = tokens

\* C18: Buy requests the payment transfer from the buyer, signed by the
\* buyer, first and the store token transfer to the buyer, signed by the
\* program-derived address, second, the second only after the first was
\* accepted; it succeeds only if both were accepted, and if either is
\* rejected it fails and no balance changes.  Sell likewise, the seller's
\* store token transfer first and the payment transfer to the seller second.
C18_TransfersInOrder ==
    \A s \in StoreAccounts :
        (AccountOwner(s) = program_id /\ Initialized(s)) =>
            \A k \in Wallets, a \in Amounts, pl \in TradePlaces :
                \A q \in {(a * PriceOf(s)) % U64Modulus} :
                    /\ TransfersInOrder(Trade("Buy", k, s, pl, a, PriceOf(s)),
                           TransferIx(pl[3], pl[1], k, q),
                           TransferIx(pl[2], pl[4], pda, a))
                    /\ TransfersInOrder(Trade("Sell", k, s, pl, a, PriceOf(s)),
                           TransferIx(pl[4], pl[2], k, a),
                           TransferIx(pl[1], pl[3], pda, q))

\* The test's record, the Buy naming the owner's own accounts in both
\* store-side places: the token program accepts the payment transfer and
\* rejects the store token transfer, which the program-derived address
\* cannot sign for.
C18_Witness ==
    /\ TestRecord
    /\ \E r \in {Trade("Buy", user, "S1", <<"PQ", "PB", "UQ", "UB">>, 1, PriceOf("S1"))} :
          /\ Len(r.cpi) = 2
          /\ r.err = "TokenError::OwnerMismatch"
          /\ r.tokens["PQ"].amount > tokens["PQ"].amount

\* ------------------------------------------------- the instruction on the wire
\* A second specification, of the instruction codec alone: a client packs an
\* instruction, the bytes may lose their tail or get another tag on the way,
\* and the program unpacks what arrives.  sent holds the instruction whose
\* packing wire still is, decoded the result of unpacking wire; each is
\* empty or holds one element.  The ledger and the records stay as Init
\* leaves them.

\* The values the two fields of Buy and Sell are drawn from: both ends of
\* the u64 range, of the low byte and of the top byte.
CodecValues == {0, 1, ByteBase - 1, ByteBase, U64Modulus \div 2, U64Modulus - 1}

\* enum StoreInstruction: the one-field variants with every u64 price, the
\* two-field variants with every pair of CodecValues.
Instructions ==
    [type : {"InitializeAccount", "UpdatePrice"}, price : U64]
        \cup [type : {"Buy", "Sell"}, amount : CodecValues, price : CodecValues]

\* A client builds the instruction data: StoreInstruction::pack.
PackInstruction ==
    /\ wire = << >>
    /\ decoded = << >>
    /\ \E instruction \in Instructions :
          /\ sent' = <<instruction>>
          /\ wire' = pack(instruction)
    /\ UNCHANGED <<tokens, data, overflow_checks, last, decoded>>

\* The instruction data arrives without its last byte.
TruncateData ==
    /\ wire # << >>
    /\ decoded = << >>
    /\ wire' = SubSeq(wire, 1, Len(wire) - 1)
    /\ sent' = << >>
    /\ UNCHANGED <<tokens, data, overflow_checks, last, decoded>>

\* The instruction data arrives with another first byte.
RetagData ==
    /\ wire # << >>
    /\ decoded = << >>
    /\ \E tag \in Bytes \ {Head(wire)} : wire' = <<tag>> \o Tail(wire)
    /\ sent' = << >>
    /\ UNCHANGED <<tokens, data, overflow_checks, last, decoded>>

\* Processor::process unpacks the instruction data it is given.
UnpackData ==
    /\ decoded = << >>
    /\ decoded' = <<unpack(wire)>>
    /\ UNCHANGED <<tokens, data, overflow_checks, last, sent, wire>>

CodecNext == PackInstruction \/ TruncateData \/ RetagData \/ UnpackData

CodecSpec == Init /\ [][CodecNext]_vars

\* --------------------------------------------------------------------- C19
\* C19: unpacking the packing of an instruction yields the instruction, the
\* same variant with the same fields; and the packing of a Buy or a Sell
\* carries the amount right after the tag and the price after the amount.
C19_RoundTrip ==
    sent # << >> =>
        /\ decoded # << >> => decoded[1] = Ok(sent[1])
        /\ sent[1].type \in {"Buy", "Sell"} =>
              /\ Len(wire) = 1 + 2 * U64Bytes
              /\ SubSeq(wire, 2, 1 + U64Bytes) = to_le_bytes(sent[1].amount)
              /\ SubSeq(wire, 2 + U64Bytes, 1 + 2 * U64Bytes) = to_le_bytes(sent[1].price)

\* A Sell of one unit at the highest price was packed and unpacked.
C19_Witness ==
    /\ sent = <<[type |-> "Sell", amount |-> 1, price |-> U64Modulus - 1]>>
    /\ decoded # << >>
    /\ decoded[1].ok
    /\ decoded[1].value.type = "Sell"

\* --------------------------------------------------------------------- C20
\* The instruction data the claim calls malformed: empty, a tag other than
\* 0..3, or a payload shorter than one u64 (tags 0, 1) or two (tags 2, 3).
Malformed(input) ==
    \/ input = << >>
    \/ /\ input # << >>
       /\ \/ Head(input) \notin 0 .. 3
          \/ Head(input) \in {0, 1} /\ Len(input) - 1 < U64Bytes
          \/ Head(input) \in {2, 3} /\ Len(input) - 1 < 2 * U64Bytes

\* C20: malformed instruction data is unpacked to InvalidInstructionData,
\* and process, given it with the accounts and the signature of a valid
\* InitializeAccount, returns that error, requests nothing of the token
\* program and leaves records and token accounts as they were.
C20_MalformedRejected ==
    Malformed(wire) =>
        /\ unpack(wire) = Err("InvalidInstructionData")
        /\ decoded # << >> => decoded[1] = Err("InvalidInstructionData")
        /\ process(tokens, data, overflow_checks,
                   InitializeAccountAccounts(Signed(store_owner), "S1", "Q", "B"),
                   {store_owner}, wire)
              = Exit("InvalidInstructionData", tokens, data, << >>)

\* Buy data one byte short of its two fields was unpacked.
C20_Witness ==
    /\ wire # << >>
    /\ Head(wire) = 2
    /\ Len(wire) = 2 * U64Bytes
    /\ decoded = <<Err("InvalidInstructionData")>>

\* ------------------------------------------------- the record in the account
\* A third specification, of the record codec alone: a Store is packed into
\* account data, the flag byte of the data may be overwritten, and the data
\* is unpacked.  sent holds the Store whose packing wire still is, decoded
\* the result of unpacking wire.

\* struct Store: both flags, the sampled prices, and for each key the zero
\* key and the keys the test uses in that place.
Stores ==
    [is_initialized : BOOLEAN,
     price : UpdatedPrices,
     owner_pubkey : {ZeroKey, store_owner, user},
     native_tokens_to_auto_sell_pubkey : {ZeroKey, "Q", "UQ"},
     store_tokens_to_auto_buy_pubkey : {ZeroKey, "B", "UB"}]

\* Store::pack_into_slice a Store into the account data.
PackStore ==
    /\ wire = << >>
    /\ \E store \in Stores :
          /\ sent' = <<store>>
          /\ wire' = pack_into_slice(store)
    /\ UNCHANGED <<tokens, data, overflow_checks, last, decoded>>

\* The account data gets another flag byte.
OverwriteFlag ==
    /\ Len(wire) = StoreLEN
    /\ decoded = << >>
    /\ \E flag \in Bytes \ {Head(wire)} : wire' = <<flag>> \o Tail(wire)
    /\ sent' = << >>
    /\ UNCHANGED <<tokens, data, overflow_checks, last, decoded>>

\* Store::unpack_unchecked of the account data.
UnpackStore ==
    /\ Len(wire) = StoreLEN
    /\ decoded = << >>
    /\ decoded' = <<unpack_from_slice(wire)>>
    /\ UNCHANGED <<tokens, data, overflow_checks, last, sent, wire>>

RecordNext == PackStore \/ OverwriteFlag \/ UnpackStore

RecordSpec == Init /\ [][RecordNext]_vars

\* --------------------------------------------------------------------- C21
\* C21: the packing of a Store is StoreLEN cells long (105 bytes in the
\* program: 1 + 8 + 32 + 32 + 32), laid out as the flag, the price in
\* little-endian order, the owner, the payment token account and the store
\* token account; unpacking it yields the Store, the all-zero one included.
C21_StoreRoundTrip ==
    sent # << >> =>
        /\ Len(wire) = StoreLEN
        /\ wire[1] = (IF sent[1].is_initialized THEN 1 ELSE 0)
        /\ SubSeq(wire, 2, 1 + U64Bytes) = to_le_bytes(sent[1].price)
        /\ wire[2 + U64Bytes] = sent[1].owner_pubkey
        /\ wire[3 + U64Bytes] = sent[1].native_tokens_to_auto_sell_pubkey
        /\ wire[4 + U64Bytes] = sent[1].store_tokens_to_auto_buy_pubkey
        /\ decoded # << >> => decoded[1] = Ok(sent[1])

\* The all-zero, uninitialized Store was packed and unpacked.
C21_Witness ==
    /\ sent = <<[is_initialized |-> FALSE,
                 price |-> 0,
                 owner_pubkey |-> ZeroKey,
                 native_tokens_to_auto_sell_pubkey |-> ZeroKey,
                 store_tokens_to_auto_buy_pubkey |-> ZeroKey]>>
    /\ wire = ZeroedData
    /\ decoded # << >>
    /\ decoded[1].ok

\* --------------------------------------------------------------------- C22
\* The instructions of the four handlers as the test submits them, against
\* store account S1.
ReaderInstructions ==
    { [accounts |-> InitializeAccountAccounts(Signed(store_owner), "S1", "Q", "B"),
       signers |-> {store_owner},
       data |-> pack([type |-> "InitializeAccount", price |-> 1])],
      [accounts |-> UpdatePriceAccounts(Signed(store_owner), "S1"),
       signers |-> {store_owner},
       data |-> pack([type |-> "UpdatePrice", price |-> 1])],
      [accounts |-> TradeAccounts(Signed(user), "S1", TestBuyPlaces),
       signers |-> {user},
       data |-> pack([type |-> "Buy", amount |-> 1, price |-> 0])],
      [accounts |-> TradeAccounts(Signed(user), "S1", TestSellPlaces),
       signers |-> {user},
       data |-> pack([type |-> "Sell", amount |-> 1, price |-> 0])] }

\* C22: account data of the record's length unpacks exactly when its flag
\* byte is 0 or 1; all-zero data unpacks to the uninitialized Store with
\* price 0 and zero keys; with any other flag byte unpacking fails with
\* InvalidAccountData, and each handler given a store account holding such
\* data returns that error and writes no record, so that the host commits
\* no change.
C22_FlagByte ==
    Len(wire) = StoreLEN =>
        /\ unpack_from_slice(wire).ok <=> wire[1] \in {0, 1}
        /\ decoded # << >> => (decoded[1].ok <=> wire[1] \in {0, 1})
        /\ wire = ZeroedData =>
              unpack_from_slice(wire) =
                  Ok([is_initialized |-> FALSE,
                      price |-> 0,
                      owner_pubkey |-> ZeroKey,
                      native_tokens_to_auto_sell_pubkey |-> ZeroKey,
                      store_tokens_to_auto_buy_pubkey |-> ZeroKey])
        /\ wire[1] \notin {0, 1} =>
              /\ unpack_from_slice(wire) = Err("InvalidAccountData")
              /\ \A ix \in ReaderInstructions :
                    \A r \in {process(tokens, [data EXCEPT !["S1"] = wire],
                                      overflow_checks, ix.accounts, ix.signers,
                                      ix.data)} :
                        /\ r.err = "InvalidAccountData"
                        /\ r.data = [data EXCEPT !["S1"] = wire]
                        /\ Committed(r).tokens = tokens

\* Account data with flag byte 2 over an initialized Store's other bytes was
\* unpacked.
C22_Witness ==
    /\ Len(wire) = StoreLEN
    /\ wire[1] = 2
    /\ wire[2 + U64Bytes] = store_owner
    /\ decoded = <<Err("InvalidAccountData")>>

\* --------------------------------------------------------------------- C23
\* C23: a record that is initialized stays initialized in every step, and a
\* record becomes initialized only in the step of a successful
\* InitializeAccount; so over any sequence of instructions the flag of a
\* record goes from false to true at most once and never back.
C23_InitializedOnce ==
    [][data' # data =>
          \A s \in StoreAccounts :
              /\ Initialized(s) => Initialized(s)'
              /\ (~Initialized(s) /\ Initialized(s)') =>
                    last' = "InitializeAccount"]_vars

\* The test's record after an UpdatePrice and a trade, with a further
\* InitializeAccount on it by its owner rejected.
C23_Witness ==
    /\ TestRecord
    /\ last = "Buy"
    /\ PriceOf("S1") = 2
    /\ Run(InitializeAccountAccounts(Signed(store_owner), "S1", "PQ", "PB"),
           {store_owner},
           pack([type |-> "InitializeAccount", price |-> 1])).err
          = "AccountAlreadyInitialized"

\* --------------------------------------------------------------------- C24
\* The successful trade r of the given type moved the quantity of payment
\* tokens: it requested that transfer and, the four token accounts being
\* distinct, the two payment token balances differ by it.
PaymentMoved(r, type, k, pl, quantity) ==
    /\ \E i \in DOMAIN r.cpi :
          r.cpi[i] = IF type = "Buy"
                     THEN TransferIx(pl[3], pl[1], k, quantity)
                     ELSE TransferIx(pl[1], pl[3], pda, quantity)
    /\ Distinct(pl) =>
          IF type = "Buy" THEN Moved(r, pl[3], pl[1], quantity)
          ELSE Moved(r, pl[1], pl[3], quantity)

\* The trade of the given type, amount and price on record s, whose stored
\* price UpdatePrice instructions before it may have replaced: if it moves
\* tokens its price is the stored one and its payment is the given
\* quantity, and if its price is not the stored one it requests no transfer
\* and moves nothing.
TradesAtStoredPrice(s, type, k, pl, a, p, quantity) ==
    \A r \in {Trade(type, k, s, pl, a, p)} :
        /\ (r.err = "Ok" /\ r.tokens # tokens) =>
              /\ p = PriceOf(s)
              /\ PaymentMoved(r, type, k, pl, quantity)
        /\ p # PriceOf(s) =>
              /\ r.err # "Ok"
              /\ r.cpi = << >>
              /\ r.tokens = tokens

CallerInstructions(k, s, p) ==
    LET full ==
            { [accounts |-> InitializeAccountAccounts(Unsigned(k), s, pl[1], pl[2]),
               data |-> pack([type |-> "InitializeAccount", price |-> p])] :
                pl \in InitPlaces }
            \cup
            { [accounts |-> UpdatePriceAccounts(Unsigned(k), s),
               data |-> pack([type |-> "UpdatePrice", price |-> p])] }
            \cup
            { [accounts |-> TradeAccounts(Unsigned(k), s, pl),
               data |-> pack([type |-> type, amount |-> 2, price |-> p])] :
                pl \in TradePlaces, type \in {"Buy", "Sell"} }
    IN  full \cup { [accounts |-> <<k>>, data |-> ix.data] : ix \in full }

\* C25: an instruction of any of the four handlers whose first account did
\* not sign returns MissingRequiredSignature, whatever store account, token
\* accounts and price it names, whether or not another wallet signed and
\* even when the accounts after the first are missing; it requests nothing
\* of the token program and leaves records and token accounts as they were.
C25_UnsignedCallerRejected ==
    [](
    \A k \in Wallets, s \in StoreAccounts, p \in {1, U64Modulus \div 2} :
        \A ix \in CallerInstructions(k, s, p), signers \in {{}, Wallets \ {k}} :
            process(tokens, data, overflow_checks, ix.accounts, signers, ix.data)
                = Exit("MissingRequiredSignature", tokens, data, << >>)
    )

\* On the test's record a Buy at the stored price succeeds when the user
\* signed and is rejected when the user did not.
C25_Witness ==
    /\ TestRecord
    /\ last = "UpdatePrice"
    /\ Trade("Buy", user, "S1", TestBuyPlaces, 1, PriceOf("S1")).err = "Ok"
    /\ Run(TradeAccounts(Unsigned(user), "S1", TestBuyPlaces), {},
           pack([type |-> "Buy", amount |-> 1, price |-> PriceOf("S1")])).err
          = "MissingRequiredSignature"

\* --------------------------------------------------------------------- C26
\* UpdatePrice, Buy and Sell with caller k, who signed, store account s and
\* price p.
SignedInstructions(k, s, p) ==
    { [accounts |-> UpdatePriceAccounts(Signed(k), s),
       data |-> pack([type |-> "UpdatePrice", price |-> p])] }
    \cup
    { [accounts |-> TradeAccounts(Signed(k), s, pl),
       data |-> pack([type |-> type, amount |-> 1, price |-> p])] :
        pl \in {TestBuyPlaces, TestSellPlaces, <<"PQ", "PB", "UQ", "UB">>},
        type \in {"Buy", "Sell"} }

\* What a store account of another program may hold: zeros, a flag byte
\* that is neither 0 nor 1, or the bytes of this program's record.
ForeignData == {ZeroedData, CorruptData, data["S1"]}

\* C26: UpdatePrice, Buy and Sell by a caller who signed return
\* UninitializedAccount against a store account of this program whose
\* record is not initialized, whatever price they carry, the record's own
\* price 0 included; against a store account of another program they return
\* IncorrectProgramId whatever data the account holds.  In both cases
\* nothing is requested of the token program and no record and no token
\* account changes.
C26_UninitializedOrForeignRejected ==
    [](
    \A k \in Wallets, p \in Prices \cup {0} :
        /\ \A s \in StoreAccounts :
              (/\ AccountOwner(s) = program_id
               /\ Stored(s).ok
               /\ ~Stored(s).value.is_initialized) =>
                  \A ix \in SignedInstructions(k, s, p) :
                      process(tokens, data, overflow_checks, ix.accounts, {k}, ix.data)
                          = Exit("UninitializedAccount", tokens, data, << >>)
        /\ \A held \in ForeignData, ix \in SignedInstructions(k, "SF", p) :
              \A d \in {[data EXCEPT !["SF"] = held]} :
                  process(tokens, d, overflow_checks, ix.accounts, {k}, ix.data)
                      = Exit("IncorrectProgramId", tokens, d, << >>)
    )

\* The test's record is initialized, the second store account is not: a Buy
\* at the price its zeroed record holds is rejected as uninitialized.
C26_Witness ==
    /\ TestRecord
    /\ Stored("S2").ok
    /\ ~Stored("S2").value.is_initialized
    /\ PriceOf("S2") = 0
    /\ Trade("Buy", user, "S2", TestBuyPlaces, 1, 0).err = "UninitializedAccount"
    /\ Trade("Buy", user, "SF", TestBuyPlaces, 1, 0).err = "IncorrectProgramId"

\* --------------------------------------------------------------------- C27
\* The outcome r of an InitializeAccount requested the reassignment first,
\* then the reassignment second, the second only if the token program
\* accepted the first; it wrote the record only if both were accepted; and
\* if the first was accepted and the second rejected it is an error, the
\* record is as it was, and the token accounts are as the first
\* reassignment left them.
ReassignsThenWrites(r, first, second) ==
    /\ r.cpi \in {<< >>, <<first>>, <<first, second>>}
    /\ Len(r.cpi) = 2 => invoke(tokens, first).ok
    /\ r.data # data =>
          /\ r.err = "Ok"
          /\ r.cpi = <<first, second>>
          /\ invoke(tokens, first).ok
          /\ invoke(invoke(tokens, first).value, second).ok
    /\ (/\ Len(r.cpi) = 2
        /\ invoke(tokens, first).ok
        /\ ~invoke(invoke(tokens, first).value, second).ok) =>
          /\ r.err # "Ok"
          /\ r.data = data
          /\ r.tokens = invoke(tokens, first).value
          /\ r.tokens[first.account].owner = pda
          /\ first.account # second.account =>
                r.tokens[second.account].owner = tokens[second.account].owner

\* C27: InitializeAccount requests the reassignment of the store token
\* account and then that of the payment token account, and writes the
\* record only after the token program accepted both; when the first is
\* accepted and the second rejected it fails without writing the record
\* and returns with the first account reassigned and the second not.
C27_ReassignsThenWrites ==
    \A w \in {Signed(store_owner), Signed(user)}, s \in StoreAccounts,
       pl \in InitPlaces :
        ReassignsThenWrites(
            Run(InitializeAccountAccounts(w, s, pl[1], pl[2]), w.signers,
                pack([type |-> "InitializeAccount", price |-> 1])),
            SetAuthorityIx(pl[2], pda, w.key),
            SetAuthorityIx(pl[1], pda, w.key))

\* With the test's record in place the user submits InitializeAccount for
\* the second store account, naming the user's own store token account and
\* the record's payment token account: the first reassignment is accepted,
\* the second rejected.
C27_Witness ==
    /\ TestRecord
    /\ ~Initialized("S2")
    /\ \E r \in {Run(InitializeAccountAccounts(Signed(user), "S2", "Q", "UB"),
                     {user},
                     pack([type |-> "InitializeAccount", price |-> 1]))} :
          /\ r.err = "TokenError::OwnerMismatch"
          /\ Len(r.cpi) = 2
          /\ r.tokens["UB"].owner = pda
          /\ r.tokens["Q"].owner = tokens["Q"].owner
          /\ r.data = data

\* --------------------------------------------------------------------- C28
RECURSIVE SumOfAmounts(_, _)
\* The sum of the amounts the ledger t holds in the given accounts.
SumOfAmounts(t, accounts) ==
    IF accounts = {} THEN 0
    ELSE LET a == CHOOSE x \in accounts : TRUE
         IN  t[a].amount + SumOfAmounts(t, accounts \ {a})

\* The supply of a mint in the ledger t: the sum over its token accounts.
Supply(t, mint) == SumOfAmounts(t, {a \in DOMAIN t : t[a].mint = mint})

=============================================================================
